---------------------------- MODULE Spec2Model ----------------------------
(***************************************************************************)
(* Model of the example CRUD resource of entirius-service-template-django: *)
(* ExampleModel (apps/example/models.py), the Pydantic request/response    *)
(* schemas (apps/example/serializers.py) and ExampleViewSet                *)
(* (apps/example/views.py).                                                *)
(*                                                                         *)
(* A string is the sequence of its characters; a character is a string of  *)
(* one ASCII character or the name of a code point outside ASCII           *)
(* ("U+0663").  JSON values are tagged records: null is [t |-> "null"], a  *)
(* string [t |-> "str", v |-> cs], a boolean [t |-> "bool", v |-> b], a    *)
(* number [t |-> "num", v |-> n]; a key that is missing from a request     *)
(* body is [t |-> "absent"].                                               *)
(*                                                                         *)
(* The table of ExampleModel rows is the function store: id -> row.  The   *)
(* views run in autocommit mode, without a transaction: every SQL          *)
(* statement of a handler is a step of its own, and the statements of      *)
(* requests served by different threads interleave.                        *)
(*                                                                         *)
(* The wall clock read by auto_now / auto_now_add is the variable clock;   *)
(* it never goes back, and two consecutive reads may return the same value *)
(* (finite resolution).  pre_save reads the clock in Python while the       *)
(* statement is built, before the statement is sent: every read of the     *)
(* clock is a step of its own too.                                         *)
(***************************************************************************)
EXTENDS Integers, Sequences, FiniteSets, TLC

VARIABLES store, nextId, clock, req, resp, threads

vars == <<store, nextId, clock, req, resp, threads>>

(***************************************************************************)
(* Bounds of the model.                                                    *)
(***************************************************************************)
MaxId == 1
MaxClock == 1
MaxTimeId == 2
MaxTimeClock == 2
MaxListRecords == 26
MaxConcId == 1
MaxConcClock == 1

(***************************************************************************)
(* Program constants.                                                      *)
(***************************************************************************)
PageSize == 20
MaxNameLen == 255
MinNameLen == 1

(***************************************************************************)
(* Values.                                                                 *)
(***************************************************************************)
Absent == [t |-> "absent"]
None == [t |-> "null"]
JStr(cs) == [t |-> "str", v |-> cs]
JBool(b) == [t |-> "bool", v |-> b]
JNum(n) == [t |-> "num", v |-> n]

\* The string of n characters c.
Rep(c, n) == [i \in 1..n |-> c]

\* A name of exactly max_length characters and one that is one too long.
NameAtLimit == Rep("x", MaxNameLen)
NameTooLong == Rep("x", MaxNameLen + 1)

NameInputs ==
    {Absent, None, JStr(<<>>), JStr(<<"a">>), JStr(NameAtLimit), JStr(NameTooLong), JNum(1)}
DescriptionInputs == {Absent, None, JStr(<<>>), JStr(<<"d">>), JBool(TRUE)}
IsActiveInputs ==
    {Absent, None, JBool(TRUE), JBool(FALSE), JStr(<<"N", "o">>), JStr(<<"1">>),
     JStr(<<"2">>), JNum(0), JNum(2)}

Fields == {"name", "description", "is_active"}

AllPayloads == [name : NameInputs, description : DescriptionInputs, is_active : IsActiveInputs]

Supplied(data) == {f \in Fields : data[f].t # "absent"}

NoPayload == [name |-> Absent, description |-> Absent, is_active |-> Absent]

\* The bodies of the requests of tests/test_views.py, and two with nulls.
TestPayloads ==
    {[name |-> JStr(<<"a">>), description |-> JStr(<<"d">>), is_active |-> JBool(TRUE)],
     [name |-> JStr(<<>>), description |-> JStr(<<"d">>), is_active |-> JBool(TRUE)],
     [name |-> JStr(<<"a">>), description |-> JStr(<<"d">>), is_active |-> Absent],
     [name |-> JStr(<<"a">>), description |-> None, is_active |-> JBool(FALSE)],
     [name |-> None, description |-> JStr(<<>>), is_active |-> None]}

\* request.data of a create or update request: no field, any one field with
\* any of its values, or one of the bodies above.
Payloads == {data \in AllPayloads : Cardinality(Supplied(data)) <= 1} \cup TestPayloads

\* The page query parameter or the pk segment of the URL: its characters.
QChars(cs) == [t |-> "chars", v |-> cs]

\* The page query parameter: missing, or its characters.
PageInputs ==
    {Absent, QChars(<<" ", "0", "_", "2", "\n">>), QChars(<<"U+0967">>), QChars(<<"0">>),
     QChars(<<"-", "1">>), QChars(<<"a", "b", "c">>), QChars(<<>>), QChars(<<"1", "_">>),
     QChars(<<"U+001F", "1">>)}

\* What a read of the clock may add to the previous read.
Ticks == {0, 1}

\* The threads of the server that serve requests.
Procs == {1, 2, 3}

(***************************************************************************)
(* Python's int() of a string: surrounding whitespace is stripped; then an *)
(* optional sign and decimal digits of any script, with single underscores *)
(* allowed between digits, are the number; anything else raises            *)
(* ValueError.                                                             *)
(***************************************************************************)
DigitChar(n) ==
    CASE n = 0 -> "0" [] n = 1 -> "1" [] n = 2 -> "2" [] n = 3 -> "3" [] n = 4 -> "4"
      [] n = 5 -> "5" [] n = 6 -> "6" [] n = 7 -> "7" [] n = 8 -> "8" [] n = 9 -> "9"

HexChars ==
    <<"0", "1", "2", "3", "4", "5", "6", "7", "8", "9", "A", "B", "C", "D", "E", "F">>

RECURSIVE Hex(_)
Hex(n) == IF n < 16 THEN HexChars[n + 1] ELSE Hex(n \div 16) \o HexChars[(n % 16) + 1]

\* The name of the code point n, 256 <= n: U+ and four hex digits or more.
CodePoint(n) == IF n < 4096 THEN "U+0" \o Hex(n) ELSE "U+" \o Hex(n)

\* The code points of the digit zero of every block of ten decimal digits
\* outside ASCII (U+0660 Arabic-Indic, U+06F0, U+07C0 NKo, U+0966
\* Devanagari, ..., U+1D7CE .. U+1D7F6 mathematical, ..., U+1FBF0): the digit
\* d of a block is the code point of its zero plus d.
DigitZeros ==
    {1632, 1776, 1984, 2406, 2534, 2662, 2790, 2918,
     3046, 3174, 3302, 3430, 3558, 3664, 3792, 3872,
     4160, 4240, 6112, 6160, 6470, 6608, 6784, 6800,
     6992, 7088, 7232, 7248, 42528, 43216, 43264, 43472,
     43504, 43600, 44016, 65296, 66720, 68912, 69734, 69872,
     69942, 70096, 70384, 70736, 70864, 71248, 71360, 71472,
     71904, 72016, 72784, 73040, 73120, 92768, 92864, 93008,
     120782, 120792, 120802, 120812, 120822, 123200, 123632, 125264,
     130032}

\* The decimal digits: character |-> value.
DigitValues ==
    {<<DigitChar(d), d>> : d \in 0..9}
    \cup {<<CodePoint(z + d), d>> : z \in DigitZeros, d \in 0..9}

Digits == {dv[1] : dv \in DigitValues}

DigitValue(c) == (CHOOSE dv \in DigitValues : dv[1] = c)[2]

\* The characters int() strips: those str.isspace() holds for, but for the
\* separators U+001C .. U+001F.
Whitespace ==
    {" ", "\t", "\n", "\r", "\f", "U+000B",
     "U+0085", "U+00A0", "U+1680", "U+2000", "U+2001", "U+2002", "U+2003", "U+2004",
     "U+2005", "U+2006", "U+2007", "U+2008", "U+2009", "U+200A", "U+2028", "U+2029",
     "U+202F", "U+205F", "U+3000"}

RECURSIVE Strip(_)
Strip(cs) ==
    IF cs = <<>> THEN cs
    ELSE IF Head(cs) \in Whitespace THEN Strip(Tail(cs))
    ELSE IF cs[Len(cs)] \in Whitespace THEN Strip(SubSeq(cs, 1, Len(cs) - 1))
    ELSE cs

\* Digits, with single underscores between digits only.
DigitsAndUnderscores(cs) ==
    /\ Len(cs) >= 1
    /\ \A i \in 1..Len(cs) : cs[i] \in Digits \cup {"_"}
    /\ cs[1] # "_"
    /\ cs[Len(cs)] # "_"
    /\ \A i \in 1..(Len(cs) - 1) : ~(cs[i] = "_" /\ cs[i + 1] = "_")

RECURSIVE DecimalValue(_)
DecimalValue(cs) ==
    IF cs = <<>> THEN 0
    ELSE IF cs[Len(cs)] = "_" THEN DecimalValue(SubSeq(cs, 1, Len(cs) - 1))
    ELSE 10 * DecimalValue(SubSeq(cs, 1, Len(cs) - 1)) + DigitValue(cs[Len(cs)])

\* [ok |-> FALSE] stands for the ValueError.
PyInt(cs) ==
    LET s == Strip(cs)
        signed == Len(s) >= 1 /\ s[1] \in {"+", "-"}
        body == IF signed THEN Tail(s) ELSE s
    IN IF DigitsAndUnderscores(body)
       THEN [ok |-> TRUE,
             n |-> (IF signed /\ s[1] = "-" THEN -1 ELSE 1) * DecimalValue(body)]
       ELSE [ok |-> FALSE, n |-> 0]

\* request.GET.get("page", 1) followed by int().
PageNumber(page) ==
    IF page.t = "absent" THEN [ok |-> TRUE, n |-> 1] ELSE PyInt(page.v)

\* The decimal digits of a natural number, as a client writes an id in a URL.
RECURSIVE PkChars(_)
PkChars(n) == IF n < 10 THEN <<DigitChar(n)>> ELSE PkChars(n \div 10) \o <<DigitChar(n % 10)>>

\* objects.get(pk=pk) for the pk of the URL: the AutoField converts it with
\* int(), a ValueError that no handler catches ("fault"); then the row is
\* there ("found") or DoesNotExist is raised ("missing").
GetPk(st, pk) ==
    IF ~PyInt(pk.v).ok THEN "fault"
    ELSE IF PyInt(pk.v).n \in DOMAIN st THEN "found"
    ELSE "missing"

\* The id a pk of the URL stands for.
PkId(pk) == PyInt(pk.v).n

(***************************************************************************)
(* The Pydantic schemas (lax mode).                                        *)
(***************************************************************************)
UpperCase ==
    <<"A", "B", "C", "D", "E", "F", "G", "H", "I", "J", "K", "L", "M",
      "N", "O", "P", "Q", "R", "S", "T", "U", "V", "W", "X", "Y", "Z">>

LowerCase ==
    <<"a", "b", "c", "d", "e", "f", "g", "h", "i", "j", "k", "l", "m",
      "n", "o", "p", "q", "r", "s", "t", "u", "v", "w", "x", "y", "z">>

\* The ASCII lower case of a character.
Lower(c) ==
    IF \E i \in 1..26 : UpperCase[i] = c
    THEN LowerCase[CHOOSE i \in 1..26 : UpperCase[i] = c]
    ELSE c

LowerStr(cs) == [i \in 1..Len(cs) |-> Lower(cs[i])]

\* The strings a bool field takes for true and for false, whatever the case
\* of their letters.
TrueStrings ==
    {<<"1">>, <<"o", "n">>, <<"t">>, <<"t", "r", "u", "e">>, <<"y">>, <<"y", "e", "s">>}

FalseStrings ==
    {<<"0">>, <<"o", "f", "f">>, <<"f">>, <<"f", "a", "l", "s", "e">>, <<"n">>, <<"n", "o">>}

\* Validation of a bool field: a boolean, the numbers 0 and 1 and the
\* strings above are accepted and converted.
LaxBool(x) ==
    IF x.t = "bool" THEN [ok |-> TRUE, v |-> x.v]
    ELSE IF x.t = "num" /\ x.v \in {0, 1} THEN [ok |-> TRUE, v |-> (x.v = 1)]
    ELSE IF x.t = "str" /\ LowerStr(x.v) \in TrueStrings THEN [ok |-> TRUE, v |-> TRUE]
    ELSE IF x.t = "str" /\ LowerStr(x.v) \in FalseStrings THEN [ok |-> TRUE, v |-> FALSE]
    ELSE [ok |-> FALSE, v |-> FALSE]

\* x or "" on an Optional[str].
OrEmpty(x) == IF x.t = "null" THEN <<>> ELSE IF x.v = <<>> THEN <<>> ELSE x.v

\* Mutant of NameLengthOk: max_length is not enforced.
NameLengthNoMax(s) == Len(s) >= MinNameLen

\* Field(..., min_length=1, max_length=255) on a str.
NameLengthOk(s) == Len(s) >= MinNameLen /\ Len(s) <= MaxNameLen

\* ExampleCreateRequest(**request.data): the fields in error.
CreateErrors(data) ==
    (IF data.name.t = "str" /\ NameLengthOk(data.name.v) THEN {} ELSE {"name"})
    \cup (IF data.description.t \in {"absent", "null", "str"} THEN {} ELSE {"description"})
    \cup (IF data.is_active.t = "absent" \/ LaxBool(data.is_active).ok
          THEN {} ELSE {"is_active"})

\* Mutant of ExampleCreateRequest: is_active defaults to False.
ExampleCreateRequestInactive(data) ==
    [name |-> data.name,
     description |-> IF data.description.t = "absent" THEN None ELSE data.description,
     is_active |-> IF data.is_active.t = "absent" THEN JBool(FALSE)
                   ELSE JBool(LaxBool(data.is_active).v)]

\* The validated ExampleCreateRequest of a payload without errors.
ExampleCreateRequest(data) ==
    [name |-> data.name,
     description |-> IF data.description.t = "absent" THEN None ELSE data.description,
     is_active |-> IF data.is_active.t = "absent" THEN JBool(TRUE)
                   ELSE JBool(LaxBool(data.is_active).v)]

\* ExampleUpdateRequest(**request.data): the fields in error.
UpdateErrors(data) ==
    (IF data.name.t \in {"absent", "null"} \/ (data.name.t = "str" /\ NameLengthOk(data.name.v))
     THEN {} ELSE {"name"})
    \cup (IF data.description.t \in {"absent", "null", "str"} THEN {} ELSE {"description"})
    \cup (IF data.is_active.t \in {"absent", "null"} \/ LaxBool(data.is_active).ok
          THEN {} ELSE {"is_active"})

\* The validated ExampleUpdateRequest of a payload without errors.
ExampleUpdateRequest(data) ==
    [name |-> IF data.name.t = "absent" THEN None ELSE data.name,
     description |-> IF data.description.t = "absent" THEN None ELSE data.description,
     is_active |-> IF data.is_active.t \in {"absent", "null"} THEN None
                   ELSE JBool(LaxBool(data.is_active).v)]

\* datetime.isoformat().
IsoFormat(ts) == [iso |-> ts]

\* ExampleResponse.from_model(instance).model_dump().
FromModel(instance) ==
    [id |-> instance.id,
     name |-> instance.name,
     description |-> OrEmpty(JStr(instance.description)),
     is_active |-> instance.is_active,
     created_at |-> IsoFormat(instance.created_at),
     updated_at |-> IsoFormat(instance.updated_at)]

(***************************************************************************)
(* The ORM: ExampleModel.objects and Model.save / Model.delete.            *)
(***************************************************************************)
Max(S) == CHOOSE x \in S : \A y \in S : y <= x

Min2(a, b) == IF a <= b THEN a ELSE b

\* Mutant of Orders: ordering = ["-updated_at"].
RECURSIVE OrdersByUpdatedAt(_, _)
OrdersByUpdatedAt(st, S) ==
    IF S = {} THEN {<<>>}
    ELSE LET latest == Max({st[i].updated_at : i \in S})
             first == {i \in S : st[i].updated_at = latest}
         IN UNION {{<<i>> \o rest : rest \in OrdersByUpdatedAt(st, S \ {i})} : i \in first}

\* Meta.ordering = ["-created_at"]: every order of the ids in S that the
\* database may return, latest created_at first, rows with equal created_at
\* in any order.
RECURSIVE Orders(_, _)
Orders(st, S) ==
    IF S = {} THEN {<<>>}
    ELSE LET latest == Max({st[i].created_at : i \in S})
             first == {i \in S : st[i].created_at = latest}
         IN UNION {{<<i>> \o rest : rest \in Orders(st, S \ {i})} : i \in first}

\* ExampleModel.objects.all(), evaluated.
QuerysetAll(st) == Orders(st, DOMAIN st)

\* queryset[start:end] is refused when a bound is negative.
SliceRefused(start, end) == start < 0 \/ end < 0

\* The rows of queryset[start:end], evaluated: a slice past the end is cut
\* short or empty.
QuerysetSlice(order, start, end) == SubSeq(order, start + 1, Min2(end, Len(order)))

\* An ExampleModel instance, a row of the table.
NewRow(id, name, description, is_active, createdAt, updatedAt) ==
    [id |-> id, name |-> name, description |-> description, is_active |-> is_active,
     created_at |-> createdAt, updated_at |-> updatedAt]

\* The assignments of update to the loaded instance.
ApplyUpdate(instance, validated) ==
    [instance EXCEPT
       !.name = IF validated.name.t # "null" THEN validated.name.v ELSE @,
       !.description = IF validated.description.t # "null" THEN validated.description.v ELSE @,
       !.is_active = IF validated.is_active.t # "null" THEN validated.is_active.v ELSE @]

\* auto_now: pre_save sets updated_at of the instance to the clock reading t.
AutoNow(instance, t) == [instance EXCEPT !.updated_at = t]

\* auto_now_add, before an INSERT: pre_save sets created_at of the instance
\* to the clock reading t.
AutoNowAdd(instance, t) == [instance EXCEPT !.created_at = t]

\* UPDATE ... WHERE id = instance.id, every column written: TRUE when a row
\* was matched.
UpdateMatches(st, instance) == instance.id \in DOMAIN st

UpdateRow(st, instance) ==
    [i \in DOMAIN st |-> IF i = instance.id THEN instance ELSE st[i]]

\* INSERT of the instance under its own id: refused (IntegrityError) when a
\* row has that id.
InsertRefused(st, instance) == instance.id \in DOMAIN st

InsertRow(st, instance) ==
    [i \in DOMAIN st \cup {instance.id} |-> IF i = instance.id THEN instance ELSE st[i]]

\* INSERT of an instance without id: the database assigns the next id.
WithId(instance, id) == [instance EXCEPT !.id = id]

\* DELETE ... WHERE id = pk: deletes nothing when no row has that id.
DeleteRow(st, pk) == [i \in DOMAIN st \ {pk} |-> st[i]]

(***************************************************************************)
(* Requests, responses and the threads serving them.  req and resp are the *)
(* last request answered and its response.  A thread is between requests   *)
(* ("idle") or between two statements of a handler, holding its locals.    *)
(***************************************************************************)
Request(op, pk, data, page) == [op |-> op, pk |-> pk, data |-> data, page |-> page]

Response(status, body) == [status |-> status, body |-> body]

NoBody == [empty |-> TRUE]

NoInstance == NewRow(0, <<>>, <<>>, FALSE, 0, 0)

IdleThread ==
    [pc |-> "idle", pk |-> Absent, data |-> NoPayload, page |-> Absent, total |-> 0,
     instance |-> NoInstance]

Init ==
    /\ store = <<>>
    /\ nextId = 1
    /\ clock = 0
    /\ req = Request("none", Absent, NoPayload, Absent)
    /\ resp = Response(0, NoBody)
    /\ threads = [p \in Procs |-> IdleThread]

(***************************************************************************)
(* ExampleViewSet.                                                         *)
(***************************************************************************)
\* f"{request.build_absolute_uri()}?page={n}".
PageUrl(n) == [t |-> "url", page |-> n]

\* The body of the list response: total_count from the COUNT, items from the
\* SELECT of the slice.
ListBody(items, total, page) ==
    LET start == (page - 1) * PageSize
        end == start + PageSize
    IN [count |-> total,
        next |-> IF end < total THEN PageUrl(page + 1) ELSE None,
        previous |-> IF page > 1 THEN PageUrl(page - 1) ELSE None,
        results |-> items]

\* list in thread p up to queryset.count(): int() of the page, the slice of
\* the (lazy) queryset and the COUNT statement.
ListCount(p, page) ==
    /\ threads[p].pc = "idle"
    /\ LET n == PageNumber(page)
           start == (n.n - 1) * PageSize
           end == start + PageSize
       IN IF ~n.ok \/ SliceRefused(start, end)
          THEN /\ req' = Request("list", Absent, NoPayload, page)
               /\ resp' = Response(500, NoBody)
               /\ UNCHANGED threads
          ELSE /\ threads' = [threads EXCEPT ![p] =
                                [IdleThread EXCEPT !.pc = "counted", !.page = page,
                                                   !.total = Cardinality(DOMAIN store)]]
               /\ UNCHANGED <<req, resp>>
    /\ UNCHANGED <<store, nextId, clock>>

\* The rest of list in thread p: the SELECT of the slice, run when the
\* results are built, and the response.
ListPage(p) ==
    /\ threads[p].pc = "counted"
    /\ \E order \in QuerysetAll(store) :
         LET n == PageNumber(threads[p].page).n
             start == (n - 1) * PageSize
             end == start + PageSize
             items == QuerysetSlice(order, start, end)
             body == ListBody([k \in DOMAIN items |-> FromModel(store[items[k]])],
                              threads[p].total, n)
         IN resp' = Response(200, body)
    /\ req' = Request("list", Absent, NoPayload, threads[p].page)
    /\ threads' = [threads EXCEPT ![p] = IdleThread]
    /\ UNCHANGED <<store, nextId, clock>>

\* create in thread p up to objects.create: the validation of the payload
\* and the instance in memory, without id and timestamps.
Create(p, data) ==
    /\ threads[p].pc = "idle"
    /\ IF CreateErrors(data) # {}
       THEN /\ req' = Request("create", Absent, data, Absent)
            /\ resp' = Response(400, [validation_errors |-> CreateErrors(data)])
            /\ UNCHANGED threads
       ELSE LET validated == ExampleCreateRequest(data)
                instance == NewRow(0, validated.name.v, OrEmpty(validated.description),
                                   validated.is_active.v, 0, 0)
            IN /\ threads' = [threads EXCEPT ![p] =
                                [IdleThread EXCEPT !.pc = "create_created_at", !.data = data,
                                                   !.instance = instance]]
               /\ UNCHANGED <<req, resp>>
    /\ UNCHANGED <<store, nextId, clock>>

\* The reads of the clock a thread makes while a statement is built, and
\* where it goes on: before the INSERT of objects.create created_at and then
\* updated_at; before the UPDATE of save() updated_at; before the INSERT of
\* save() created_at and then updated_at.
ClockReads ==
    {<<"create_created_at", "create_updated_at">>, <<"create_updated_at", "create_insert">>,
     <<"save_updated_at", "save_update">>,
     <<"insert_created_at", "insert_updated_at">>, <<"insert_updated_at", "save_insert">>}

\* DateTimeField.pre_save in thread p: timezone.now() is read, d after the
\* last read of any thread, and set on the instance in memory.
PreSave(p, d) ==
    /\ \E r \in ClockReads :
         /\ threads[p].pc = r[1]
         /\ threads' = [threads EXCEPT
                          ![p].pc = r[2],
                          ![p].instance =
                             IF r[1] \in {"create_created_at", "insert_created_at"}
                             THEN AutoNowAdd(@, clock + d)
                             ELSE AutoNow(@, clock + d)]
    /\ clock' = clock + d
    /\ UNCHANGED <<store, nextId, req, resp>>

\* The rest of create in thread p: the INSERT of objects.create and the
\* response.
CreateInsert(p) ==
    /\ threads[p].pc = "create_insert"
    /\ LET row == WithId(threads[p].instance, nextId)
       IN /\ store' = InsertRow(store, row)
          /\ resp' = Response(201, FromModel(row))
    /\ nextId' = nextId + 1
    /\ req' = Request("create", Absent, threads[p].data, Absent)
    /\ threads' = [threads EXCEPT ![p] = IdleThread]
    /\ UNCHANGED clock

\* retrieve: one SELECT.
Retrieve(pk) ==
    /\ req' = Request("retrieve", pk, NoPayload, Absent)
    /\ resp' = IF GetPk(store, pk) = "fault" THEN Response(500, NoBody)
               ELSE IF GetPk(store, pk) = "missing" THEN Response(404, NoBody)
               ELSE Response(200, FromModel(store[PkId(pk)]))
    /\ UNCHANGED <<store, nextId, clock, threads>>

\* What update answers before save(), or 200 when it goes on to save(): the
\* row is looked up before the payload is validated.
UpdateStatus(st, pk, data) ==
    IF GetPk(st, pk) = "fault" THEN 500
    ELSE IF GetPk(st, pk) = "missing" THEN 404
    ELSE IF UpdateErrors(data) # {} THEN 400
    ELSE 200

\* update in thread p up to instance.save(): the SELECT of objects.get, the
\* validation of the payload and the assignments to the instance in memory.
\* save() starts with the read of the clock for updated_at.
UpdateGet(p, pk, data) ==
    /\ threads[p].pc = "idle"
    /\ IF UpdateStatus(store, pk, data) \in {404, 500}
       THEN /\ req' = Request("update", pk, data, Absent)
            /\ resp' = Response(UpdateStatus(store, pk, data), NoBody)
            /\ UNCHANGED threads
       ELSE IF UpdateStatus(store, pk, data) = 400
       THEN /\ req' = Request("update", pk, data, Absent)
            /\ resp' = Response(400, [validation_errors |-> UpdateErrors(data)])
            /\ UNCHANGED threads
       ELSE /\ threads' = [threads EXCEPT ![p] =
                             [IdleThread EXCEPT
                                !.pc = "save_updated_at", !.pk = pk, !.data = data,
                                !.instance = ApplyUpdate(store[PkId(pk)],
                                                         ExampleUpdateRequest(data))]]
            /\ UNCHANGED <<req, resp>>
    /\ UNCHANGED <<store, nextId, clock>>

\* instance.save() in thread p, its UPDATE statement: when the row is there
\* it is written and update answers 200; when no row was matched save() goes
\* on to an INSERT, for which the clock is read anew.
UpdateSave(p) ==
    /\ threads[p].pc = "save_update"
    /\ LET instance == threads[p].instance
       IN IF UpdateMatches(store, instance)
          THEN /\ store' = UpdateRow(store, instance)
               /\ req' = Request("update", threads[p].pk, threads[p].data, Absent)
               /\ resp' = Response(200, FromModel(instance))
               /\ threads' = [threads EXCEPT ![p] = IdleThread]
          ELSE /\ threads' = [threads EXCEPT ![p].pc = "insert_created_at"]
               /\ UNCHANGED <<store, req, resp>>
    /\ UNCHANGED <<nextId, clock>>

\* instance.save() in thread p, the INSERT statement that follows an UPDATE
\* of no row, and the response; an IntegrityError is caught by no handler.
UpdateInsert(p) ==
    /\ threads[p].pc = "save_insert"
    /\ LET instance == threads[p].instance
       IN IF InsertRefused(store, instance)
          THEN /\ resp' = Response(500, NoBody)
               /\ UNCHANGED store
          ELSE /\ store' = InsertRow(store, instance)
               /\ resp' = Response(200, FromModel(instance))
    /\ req' = Request("update", threads[p].pk, threads[p].data, Absent)
    /\ threads' = [threads EXCEPT ![p] = IdleThread]
    /\ UNCHANGED <<nextId, clock>>

\* destroy in thread p up to instance.delete(): the SELECT of objects.get.
DestroyGet(p, pk) ==
    /\ threads[p].pc = "idle"
    /\ IF GetPk(store, pk) # "found"
       THEN /\ req' = Request("destroy", pk, NoPayload, Absent)
            /\ resp' = Response(IF GetPk(store, pk) = "fault" THEN 500 ELSE 404, NoBody)
            /\ UNCHANGED threads
       ELSE /\ threads' = [threads EXCEPT ![p] = [IdleThread EXCEPT !.pc = "deleting", !.pk = pk]]
            /\ UNCHANGED <<req, resp>>
    /\ UNCHANGED <<store, nextId, clock>>

\* The rest of destroy in thread p: the DELETE statement of instance.delete()
\* and the response, 204 also when the row was already gone.
DestroyDelete(p) ==
    /\ threads[p].pc = "deleting"
    /\ store' = DeleteRow(store, PkId(threads[p].pk))
    /\ req' = Request("destroy", threads[p].pk, NoPayload, Absent)
    /\ resp' = Response(204, NoBody)
    /\ threads' = [threads EXCEPT ![p] = IdleThread]
    /\ UNCHANGED <<nextId, clock>>

\* The pk of a URL: every id in use, one that never is, a segment that is no
\* number and one that is the number 1 written with a blank and a Devanagari
\* digit.
PkInputs ==
    {QChars(PkChars(i)) : i \in 1..(MaxId + 1)}
    \cup {QChars(<<"a">>), QChars(<<" ", "U+0967">>)}

\* The pcs of a thread that is serving a create.
CreatePcs == {"create_created_at", "create_updated_at", "create_insert"}

\* The number of creates that threads are serving.
Creating == Cardinality({p \in Procs : threads[p].pc \in CreatePcs})

UpdatePayloads ==
    {NoPayload,
     [NoPayload EXCEPT !.name = JStr(<<>>)],
     [NoPayload EXCEPT !.name = JStr(NameTooLong)],
     [NoPayload EXCEPT !.name = JNum(1)],
     [NoPayload EXCEPT !.is_active = JStr(<<"2">>)],
     [name |-> None, description |-> JStr(<<>>), is_active |-> None]}

\* The threads that serve the requests of the specification below.
SpecProcs == {1, 2}

Next ==
    \/ \E p \in SpecProcs, page \in PageInputs : ListCount(p, page)
    \/ \E p \in SpecProcs : ListPage(p)
    \/ \E p \in SpecProcs, data \in Payloads :
         /\ nextId + Creating <= MaxId
         /\ Create(p, data)
    \/ \E p \in SpecProcs, d \in Ticks :
         /\ clock + d <= MaxClock
         /\ PreSave(p, d)
    \/ \E p \in SpecProcs : CreateInsert(p)
    \/ \E pk \in PkInputs : Retrieve(pk)
    \/ \E p \in SpecProcs, pk \in PkInputs, data \in UpdatePayloads : UpdateGet(p, pk, data)
    \/ \E p \in SpecProcs : UpdateSave(p)
    \/ \E p \in SpecProcs : UpdateInsert(p)
    \/ \E p \in SpecProcs, pk \in PkInputs : DestroyGet(p, pk)
    \/ \E p \in SpecProcs : DestroyDelete(p)

Spec == Init /\ [][Next]_vars

(***************************************************************************)
(* Ordering: creates, updates and lists, few payloads, a longer clock.     *)
(***************************************************************************)
TimePayloads == {NoPayload, [NoPayload EXCEPT !.name = JStr(<<"a">>)]}

TimePkInputs == {QChars(PkChars(i)) : i \in 1..(MaxTimeId + 1)}

TimePages == {Absent}

TimeProcs == {1, 2}

NextTime ==
    \/ \E p \in TimeProcs, page \in TimePages : ListCount(p, page)
    \/ \E p \in TimeProcs : ListPage(p)
    \/ \E p \in TimeProcs, data \in TimePayloads :
         /\ nextId + Creating <= MaxTimeId
         /\ Create(p, data)
    \/ \E p \in TimeProcs, d \in Ticks :
         /\ clock + d <= MaxTimeClock
         /\ PreSave(p, d)
    \/ \E p \in TimeProcs : CreateInsert(p)
    \/ \E p \in TimeProcs, pk \in TimePkInputs, data \in TimePayloads : UpdateGet(p, pk, data)
    \/ \E p \in TimeProcs : UpdateSave(p)

SpecTime == Init /\ [][NextTime]_vars

(***************************************************************************)
(* Pagination: a table of up to MaxListRecords rows, created one after the *)
(* other at distinct clock readings by one thread, while another thread    *)
(* serves list requests.                                                   *)
(***************************************************************************)
ListPayload == [NoPayload EXCEPT !.name = JStr(<<"a">>)]

ListPages == {Absent, QChars(<<"1">>), QChars(<<"2">>), QChars(<<"3">>)}

ListProcs == {1}

ListCreators == {2}

NextList ==
    \/ \E p \in ListProcs, page \in ListPages : ListCount(p, page)
    \/ \E p \in ListProcs : ListPage(p)
    \/ \E p \in ListCreators :
         /\ nextId + Creating <= MaxListRecords
         /\ Create(p, ListPayload)
    \/ \E p \in ListCreators : PreSave(p, 1)
    \/ \E p \in ListCreators : CreateInsert(p)

SpecList == Init /\ [][NextList]_vars

(***************************************************************************)
(* Concurrent updates and deletes of a row.                                *)
(***************************************************************************)
ConcPayloads ==
    {NoPayload,
     [NoPayload EXCEPT !.name = JStr(<<"b">>)],
     [NoPayload EXCEPT !.description = JStr(<<"d">>)]}

ConcPkInputs == {QChars(PkChars(i)) : i \in 1..(MaxConcId + 1)}

\* The requests each thread serves below: two updates, two deletes, or two
\* updates and a delete of a row can be in flight together.
ConcUpdaters == {1, 2}

ConcDestroyers == {2, 3}

ConcCreators == {3}

NextConc ==
    \/ \E p \in ConcCreators :
         /\ nextId + Creating <= MaxConcId
         /\ Create(p, ListPayload)
    \/ \E p \in Procs, d \in Ticks :
         /\ clock + d <= MaxConcClock
         /\ PreSave(p, d)
    \/ \E p \in ConcCreators : CreateInsert(p)
    \/ \E p \in ConcUpdaters, pk \in ConcPkInputs, data \in ConcPayloads : UpdateGet(p, pk, data)
    \/ \E p \in ConcUpdaters : UpdateSave(p)
    \/ \E p \in ConcUpdaters : UpdateInsert(p)
    \/ \E p \in ConcDestroyers, pk \in ConcPkInputs : DestroyGet(p, pk)
    \/ \E p \in ConcDestroyers : DestroyDelete(p)

SpecConc == Init /\ [][NextConc]_vars

(***************************************************************************)
(* The claims.                                                             *)
(***************************************************************************)
Ids == DOMAIN store

\* A column of a row holds the JSON value jv (a column is never null).
Holds(x, jv) == jv.t \in {"str", "bool"} /\ x = jv.v

\* A step in which a request is answered: by the first statement of its
\* handler (no thread changes) or by a thread that ends its handler.
Answered ==
    \/ threads' = threads
    \/ \E p \in Procs : threads[p].pc # "idle" /\ threads'[p].pc = "idle"

\* The rows other than pk are the same before and after the step.
OthersUnchanged(pk) ==
    /\ DOMAIN store' \ {pk} = DOMAIN store \ {pk}
    /\ \A i \in DOMAIN store \ {pk} : store'[i] = store[i]

\* The page number a list request asks for, for the pages of ListPages.
C1_Page ==
    IF req.page.t = "absent" THEN 1
    ELSE IF req.page.v = <<"1">> THEN 1
    ELSE IF req.page.v = <<"2">> THEN 2
    ELSE IF req.page.v = <<"3">> THEN 3
    ELSE 0

C1_Expected(n, pg) ==
    LET rest == n - PageSize * (pg - 1)
    IN IF rest <= 0 THEN 0 ELSE IF rest < PageSize THEN rest ELSE PageSize

\* C1 (as claimed): the answer of List for page p >= 1 is the one of a store
\* of N rows, N = count being a number of rows the store held while the
\* request was served: 200 with the min(20, max(0, N - 20(p-1))) rows at
\* positions 20(p-1) .. 20p-1 of the default order (here ids N, N-1, .., 1:
\* every row was created at a later clock reading than the one before, and
\* no row is updated or deleted), next non-null exactly when 20p < N and
\* previous non-null exactly when p > 1.
C1_ListPagination ==
    (req.op = "list" /\ C1_Page >= 1) =>
        LET n == resp.body.count
            pg == C1_Page
            body == resp.body
        IN /\ resp.status = 200
           /\ n <= Cardinality(Ids)
           /\ Len(body.results) = C1_Expected(n, pg)
           /\ \A k \in 1..Len(body.results) :
                 /\ body.results[k].id = n - PageSize * (pg - 1) - k + 1
                 /\ body.results[k] = FromModel(store[body.results[k].id])
           /\ (body.next.t # "null") = (PageSize * pg < n)
           /\ (body.previous.t # "null") = (pg > 1)

\* C2 (as claimed): every List request is answered with status 200.
C2_ListAlways200 == req.op = "list" => resp.status = 200

\* C3 (as claimed): a successful Update overwrites exactly the fields that
\* are present in the payload, with the payload's values, and leaves the
\* absent fields, id, created_at and every other row unchanged.
C3_OverwritesPresentFields ==
    [][(Answered /\ req'.op = "update" /\ resp'.status = 200) =>
         LET pk == PkId(req'.pk)
             data == req'.data
         IN /\ pk \in DOMAIN store /\ pk \in DOMAIN store'
            /\ \A f \in Fields :
                  IF f \in Supplied(data) THEN Holds(store'[pk][f], data[f])
                  ELSE store'[pk][f] = store[pk][f]
            /\ store'[pk].id = store[pk].id
            /\ store'[pk].created_at = store[pk].created_at
            /\ OthersUnchanged(pk)]_vars

\* C4 (as claimed): Retrieve, Update and Delete of an id (a number) that is
\* not in the store answer 404 and leave the store unchanged, for Update
\* whatever the payload.
C4_NotFound ==
    [][(/\ Answered
        /\ req'.op \in {"retrieve", "update", "destroy"}
        /\ GetPk(store, req'.pk) = "missing") =>
         /\ resp'.status = 404
         /\ store' = store
         /\ Cardinality(DOMAIN store') = Cardinality(DOMAIN store)]_vars

\* The payloads C5 names.
C5_NameEmptyOrTooLong(data) ==
    data.name.t = "str" /\ (data.name.v = <<>> \/ Len(data.name.v) > 255)

C5_CreateFails(data) == data.name.t = "absent" \/ C5_NameEmptyOrTooLong(data)

\* C5: a Create without a name, or a Create or an Update of an existing row
\* with an empty or over-long name, answers 400 with the errors under
\* validation_errors (one of them on name), and the store is unchanged.
C5_ValidationRejection ==
    [][(/\ Answered
        /\ \/ (req'.op = "create" /\ C5_CreateFails(req'.data))
           \/ (req'.op = "update" /\ GetPk(store, req'.pk) = "found"
                 /\ C5_NameEmptyOrTooLong(req'.data))) =>
         /\ resp'.status = 400
         /\ DOMAIN resp'.body = {"validation_errors"}
         /\ "name" \in resp'.body.validation_errors
         /\ store' = store]_vars

\* C5 witness: an Update of an existing row was refused for its name.
C5_Witness ==
    /\ req.op = "update"
    /\ PkId(req.pk) \in Ids
    /\ req.data.name = JStr(NameTooLong)
    /\ resp.status = 400

\* A valid Create payload: a name of 1..255 characters, a description that
\* is a string, null or omitted, is_active a boolean or omitted.
C6_Valid(data) ==
    /\ data.name.t = "str" /\ Len(data.name.v) >= 1 /\ Len(data.name.v) <= 255
    /\ data.description.t \in {"absent", "null", "str"}
    /\ data.is_active.t \in {"absent", "bool"}

\* C6: a valid Create answers 201 and adds exactly one row; the response and
\* the row have the payload's name, its description or "" when omitted or
\* null, and its is_active or true when omitted.
C6_CreateRoundTrip ==
    [][(Answered /\ req'.op = "create" /\ C6_Valid(req'.data)) =>
         LET data == req'.data
             description == IF data.description.t = "str" THEN data.description.v ELSE <<>>
             is_active == IF data.is_active.t = "bool" THEN data.is_active.v ELSE TRUE
         IN /\ resp'.status = 201
            /\ \E id \in DOMAIN store' \ DOMAIN store :
                  /\ DOMAIN store' = DOMAIN store \cup {id}
                  /\ resp'.body.id = id
                  /\ store'[id].name = data.name.v
                  /\ store'[id].description = description
                  /\ store'[id].is_active = is_active
            /\ \A i \in DOMAIN store : store'[i] = store[i]
            /\ resp'.body.name = data.name.v
            /\ resp'.body.description = description
            /\ resp'.body.is_active = is_active]_vars

\* C6 witness: a Create with a null description was answered 201 with "".
C6_Witness ==
    /\ req.op = "create"
    /\ req.data.description.t = "null"
    /\ req.data.is_active = JBool(FALSE)
    /\ resp.status = 201
    /\ resp.body.description = <<>>
    /\ resp.body.is_active = FALSE

\* The ids of the results of a list response, in order.
ResultIds == [k \in DOMAIN resp.body.results |-> resp.body.results[k].id]

\* C7 (as claimed): List returns the rows in strictly reverse creation
\* order (ids are assigned in creation order), whatever Updates were made.
C7_StrictReverseCreation ==
    (req.op = "list" /\ resp.status = 200) =>
        /\ {ResultIds[k] : k \in DOMAIN ResultIds} = Ids
        /\ \A k, m \in DOMAIN ResultIds : k < m => ResultIds[k] > ResultIds[m]

\* C7 (amended): List returns every row once, in descending order of
\* created_at, the clock reading its create took: a row with a later
\* created_at comes first, rows with equal created_at in either order;
\* Updates do not change this.
C7_CreatedAtDescending ==
    (req.op = "list" /\ resp.status = 200) =>
        /\ Len(ResultIds) = Cardinality(Ids)
        /\ {ResultIds[k] : k \in DOMAIN ResultIds} = Ids
        /\ \A k, m \in DOMAIN ResultIds : k < m =>
              store[ResultIds[k]].created_at >= store[ResultIds[m]].created_at

\* C7 witness: two rows listed latest first although the older one was
\* updated after the newer one was created.
C7_Witness ==
    /\ req.op = "list"
    /\ resp.status = 200
    /\ ResultIds = <<2, 1>>
    /\ store[1].created_at < store[2].created_at
    /\ store[1].updated_at > store[2].updated_at

\* created_at and id of a row never change.
C8_Immutable ==
    \A i \in DOMAIN store \cap DOMAIN store' :
        store'[i].id = store[i].id /\ store'[i].created_at = store[i].created_at

C8_Ordered == \A i \in Ids : store[i].id = i /\ store[i].created_at <= store[i].updated_at

\* C8 (as claimed): created_at <= updated_at in every state, created_at and
\* id never change, and every successful Update makes updated_at of its row
\* strictly greater.
C8_Timestamps ==
    /\ []C8_Ordered
    /\ [][/\ C8_Immutable
          /\ (Answered /\ req'.op = "update" /\ resp'.status = 200) =>
                /\ PkId(req'.pk) \in DOMAIN store \cap DOMAIN store'
                /\ store'[PkId(req'.pk)].updated_at > store[PkId(req'.pk)].updated_at]_vars

\* C9 (as claimed): once a Delete has answered 204 the id is in the store in
\* no later state. Ids are never reused and only Delete removes a row, so an
\* allocated id that is not in the store is the id of a Delete answered 204.
C9_DeleteIsPermanent ==
    [][\A i \in 1..(nextId - 1) : i \notin DOMAIN store => i \notin DOMAIN store']_vars

\* C10 (as claimed): when two Updates of the same row that set disjoint
\* fields, one only the name and the other only the description, are both
\* answered 200, one after the other, the row has the name of the one and the
\* description of the other, however their reads and writes interleaved.
C10_NoLostUpdate ==
    [][\A f, g \in {"name", "description"} :
         (/\ f # g
          /\ Answered
          /\ req.op = "update" /\ resp.status = 200 /\ Supplied(req.data) = {f}
          /\ req'.op = "update" /\ resp'.status = 200 /\ Supplied(req'.data) = {g}
          /\ req'.pk = req.pk)
         => /\ PkId(req'.pk) \in DOMAIN store'
            /\ Holds(store'[PkId(req'.pk)][f], req.data[f])
            /\ Holds(store'[PkId(req'.pk)][g], req'.data[g])]_vars

=============================================================================
